---- MODULE Spec2Model ----
(***************************************************************************)
(* Ingestion pipeline of the mini-RAG backend (Src/): the upload and the   *)
(* process endpoints of routes/data.py, the controllers they call, and the *)
(* project and chunk collections behind ProjectModel and ChunkModel.       *)
(*                                                                         *)
(* Text (file names, project ids, file contents) is a sequence of          *)
(* one-character strings.  An uploaded body is run-length encoded, so that *)
(* bodies as large as the size ceiling (FILE_MAX_SIZE * 1048576 bytes) are *)
(* values the model can hold.  A request is a task in a slot; one action   *)
(* is the code between two awaits of its handler.                          *)
(***************************************************************************)
EXTENDS Integers, Sequences, FiniteSets, TLC

---------------------------------------------------------------------------
(* Bounds of the model *)

\* request slots that may be in flight at the same time
MaxInFlight == 2
\* most bytes of an uploaded body written out literally (larger ones are runs)
MaxBody == 3
\* most blocks one upload may need (caps the write loop of huge bodies)
MaxWrites == 4
\* most characters of an uploaded file's name
MaxName == 3
\* most chunks handed to one direct insert_many_chunks call
MaxChunks == 3
\* ObjectIds the database hands out in one run
MaxOid == 3
\* the longest record text drawn from the whole alphabet
MaxText == 4
\* the largest chunk_size and the largest chunk_overlap handed to the splitter
MaxChunkSize == 4
MaxOverlap == 2

---------------------------------------------------------------------------
(* Program constants and settings *)

\* DataController.size_scale
size_scale == 1048576
\* Settings.FILE_MAX_SIZE, in MB (read from .env)
FILE_MAX_SIZE == 1
\* default batch_size of ChunkModel.insert_many_chunks
DefaultBatchSize == 100
\* default length of BaseController.generate_random_string
TokenLength == 12

\* Settings.FILE_ALLOWED_TYPES (read from .env)
FILE_ALLOWED_TYPES == {"text/plain", "application/pdf"}

\* the size ceiling of validate_uploaded_file, in bytes
Ceiling == FILE_MAX_SIZE * size_scale

\* values of Settings.FILE_DEFAULT_CHUNK_SIZE (the upload block size) tried
BlockSizes == {1, 2, Ceiling \div 2}

\* ResponseSignals
FILE_VALIDATE_SUCCESS == "file validation successful"
FILE_TYPE_NOT_SUPPORTED == "file type not supported"
FILE_SIZE_EXCEEDED == "file size exceeded"
FILE_UPLOAD_SUCCESS == "file uploaded successfully"
FILE_UPLOADED_FAIL == "file upload failed"
FILE_PROCESSING_FAIL == "file processing failed"
FILE_PROCESSING_SUCCESS == "file processing successful"

\* ProcessingEnum
TXT == <<".", "t", "x", "t">>
PDF == <<".", "p", "d", "f">>

---------------------------------------------------------------------------
(* Sequences *)

Range(s) == {s[i] : i \in 1..Len(s)}

Min(a, b) == IF a <= b THEN a ELSE b

\* ceil(a / b) for b >= 1
CeilDiv(a, b) == (a + b - 1) \div b

RECURSIVE Flatten(_)
Flatten(ss) == IF ss = <<>> THEN <<>> ELSE Head(ss) \o Flatten(Tail(ss))

\* Python's s[lo:hi] on 0-based positions, hi clipped to the length
Slice(s, lo, hi) == SubSeq(s, lo + 1, Min(hi, Len(s)))

\* n copies of c
Rep(c, n) == [k \in 1..n |-> c]

---------------------------------------------------------------------------
(* Bytes of an upload: a sequence of runs [b |-> byte, n |-> count >= 1],    *)
(* no two neighbouring runs of the same byte.                              *)

RECURSIVE Size(_)
Size(body) == IF body = <<>> THEN 0 ELSE Head(body).n + Size(Tail(body))

\* concatenation, kept in normal form
Cat(x, y) ==
  IF x = <<>> THEN y
  ELSE IF y = <<>> THEN x
  ELSE IF x[Len(x)].b = y[1].b
       THEN SubSeq(x, 1, Len(x) - 1)
            \o <<[b |-> y[1].b, n |-> x[Len(x)].n + y[1].n]>>
            \o Tail(y)
       ELSE x \o y

\* the first k bytes
RECURSIVE Take(_, _)
Take(body, k) ==
  IF k <= 0 \/ body = <<>> THEN <<>>
  ELSE IF Head(body).n >= k THEN <<[b |-> Head(body).b, n |-> k]>>
  ELSE <<Head(body)>> \o Take(Tail(body), k - Head(body).n)

\* what is left after the first k bytes
RECURSIVE Drop(_, _)
Drop(body, k) ==
  IF k <= 0 \/ body = <<>> THEN body
  ELSE IF Head(body).n > k
       THEN <<[b |-> Head(body).b, n |-> Head(body).n - k]>> \o Tail(body)
  ELSE Drop(Tail(body), k - Head(body).n)

\* the bytes one by one (small bodies only)
RECURSIVE Expand(_)
Expand(body) ==
  IF body = <<>> THEN <<>>
  ELSE Rep(Head(body).b, Head(body).n) \o Expand(Tail(body))

\* a literal text as a body
RECURSIVE Encode(_)
Encode(text) ==
  IF text = <<>> THEN <<>>
  ELSE Cat(<<[b |-> Head(text), n |-> 1]>>, Encode(Tail(text)))

---------------------------------------------------------------------------
(* Characters *)

Letters == {"a", "b", "d", "f", "p", "t", "x", "T", "X", "P", "D", "F", "k", "m"}
Digits == {"1", "2"}
Whitespace == {" ", "\n", "\t", "\f"}

\* str.isalnum on one character
IsAlnumChar(c) == c \in Letters \cup Digits

\* the regular expression class \w
IsWordChar(c) == IsAlnumChar(c) \/ c = "_"

\* str.lower on one character
LowerChar(c) ==
  IF c = "T" THEN "t" ELSE IF c = "X" THEN "x"
  ELSE IF c = "P" THEN "p" ELSE IF c = "D" THEN "d"
  ELSE IF c = "F" THEN "f" ELSE c

\* str.lower
Lower(s) == [i \in 1..Len(s) |-> LowerChar(s[i])]

\* str.isalnum: every character alphanumeric and at least one character
IsAlnum(s) == s # <<>> /\ \A i \in 1..Len(s) : IsAlnumChar(s[i])

\* str.strip: whitespace removed from both ends
RECURSIVE LStrip(_)
LStrip(s) == IF s # <<>> /\ Head(s) \in Whitespace THEN LStrip(Tail(s)) ELSE s

RECURSIVE RStrip(_)
RStrip(s) ==
  IF s # <<>> /\ s[Len(s)] \in Whitespace
  THEN RStrip(SubSeq(s, 1, Len(s) - 1)) ELSE s

Strip(s) == RStrip(LStrip(s))

---------------------------------------------------------------------------
(* DataController *)

\* validate_uploaded_file with the size ceiling itself rejected
validate_uploaded_file_ge(content_type, size) ==
  IF content_type \notin FILE_ALLOWED_TYPES
  THEN <<FALSE, FILE_TYPE_NOT_SUPPORTED>>
  ELSE IF size >= FILE_MAX_SIZE * size_scale
  THEN <<FALSE, FILE_SIZE_EXCEEDED>>
  ELSE <<TRUE, FILE_VALIDATE_SUCCESS>>

\* validate_uploaded_file: the type check first, then the size check
validate_uploaded_file(content_type, size) ==
  IF content_type \notin FILE_ALLOWED_TYPES
  THEN <<FALSE, FILE_TYPE_NOT_SUPPORTED>>
  ELSE IF size > FILE_MAX_SIZE * size_scale
  THEN <<FALSE, FILE_SIZE_EXCEEDED>>
  ELSE <<TRUE, FILE_VALIDATE_SUCCESS>>

\* get_clean_file_name without the re.sub: strip and ' ' -> '_' only
get_clean_file_name_no_sub(orig_file_name) ==
  LET kept == Strip(orig_file_name)
  IN  [i \in 1..Len(kept) |-> IF kept[i] = " " THEN "_" ELSE kept[i]]

\* get_clean_file_name: re.sub(r'[^\w.]', '', name.strip()), then ' ' -> '_'
get_clean_file_name(orig_file_name) ==
  LET kept == SelectSeq(Strip(orig_file_name),
                        LAMBDA c : IsWordChar(c) \/ c = ".")
  IN  [i \in 1..Len(kept) |-> IF kept[i] = " " THEN "_" ELSE kept[i]]

\* the values generate_random_string() may return (two of the 36^12)
Tokens == {Rep("k", TokenLength), Rep("m", TokenLength)}

\* random_key + "_" + cleaned_file_name
StoredName(random_key, orig_file_name) ==
  random_key \o <<"_">> \o get_clean_file_name(orig_file_name)

---------------------------------------------------------------------------
(* ProcessController: extension and loader *)

\* index of the last "." of s, 0 when there is none
LastDot(s) ==
  LET dots == {i \in 1..Len(s) : s[i] = "."}
  IN  IF dots = {} THEN 0 ELSE CHOOSE i \in dots : \A j \in dots : j <= i

\* os.path.splitext(file_id)[1]: from the last dot on, unless only dots
\* come before it
SplitExt(s) ==
  LET d == LastDot(s)
  IN  IF d > 0 /\ \E j \in 1..(d - 1) : s[j] # "."
      THEN SubSeq(s, d, Len(s)) ELSE <<>>

get_file_extension(file_id) == Lower(SplitExt(file_id))

\* get_file_loader: which loader class is built, "None" for no loader
get_file_loader(file_id) ==
  LET file_ext == get_file_extension(file_id)
  IN  IF file_ext = TXT THEN "TextLoader"
      ELSE IF file_ext = PDF THEN "PyMuPDFLoader"
      ELSE "None"

---------------------------------------------------------------------------
(* RecursiveCharacterTextSplitter(chunk_size, chunk_overlap, len), as      *)
(* process_file_content builds and calls it: separators "\n\n", "\n", " ", *)
(* "" tried in that order, the separator kept at the start of the piece    *)
(* that follows it, every merged chunk stripped of surrounding whitespace. *)

Separators == << <<"\n", "\n">>, <<"\n">>, <<" ">>, <<>> >>

\* whether sep occurs in text at 1-based position i
MatchAt(text, sep, i) ==
  i + Len(sep) - 1 <= Len(text) /\ SubSeq(text, i, i + Len(sep) - 1) = sep

\* re.search(sep, text) for a non-empty literal sep
Contains(text, sep) == \E i \in 1..Len(text) : MatchAt(text, sep, i)

\* re.split("(sep)", text) with each separator glued to the front of the piece
\* after it: the pieces, the first possibly empty
RECURSIVE SplitFrom(_, _, _, _)
SplitFrom(text, sep, i, cur) ==
  IF i > Len(text) THEN <<cur>>
  ELSE IF MatchAt(text, sep, i)
       THEN <<cur>> \o SplitFrom(text, sep, i + Len(sep), sep)
       ELSE SplitFrom(text, sep, i + 1, Append(cur, text[i]))

\* _split_text_with_regex(text, separator, keep_separator=True)
SplitWithRegex(text, sep) ==
  LET raw == IF sep = <<>> THEN [i \in 1..Len(text) |-> <<text[i]>>]
             ELSE SplitFrom(text, sep, 1, <<>>)
  IN  SelectSeq(raw, LAMBDA x : x # <<>>)

\* _join_docs with separator "": the joined text stripped, <<>> for None
JoinDocs(docs) == Strip(Flatten(docs))

\* the while loop without its second test: pieces are popped only while
\* they are more than the overlap
RECURSIVE PopFrontOverlapOnly(_, _, _, _, _)
PopFrontOverlapOnly(cur, total, len, chunk_size, chunk_overlap) ==
  IF total > chunk_overlap
  THEN PopFrontOverlapOnly(Tail(cur), total - Len(Head(cur)), len,
                           chunk_size, chunk_overlap)
  ELSE <<cur, total>>

\* the while loop popping all of current_doc: no piece is carried over
RECURSIVE PopFrontAll(_, _, _, _, _)
PopFrontAll(cur, total, len, chunk_size, chunk_overlap) ==
  IF total > 0
  THEN PopFrontAll(Tail(cur), total - Len(Head(cur)), len,
                   chunk_size, chunk_overlap)
  ELSE <<cur, total>>

\* the while loop of _merge_splits: pop from the front of current_doc
RECURSIVE PopFront(_, _, _, _, _)
PopFront(cur, total, len, chunk_size, chunk_overlap) ==
  IF total > chunk_overlap \/ (total + len > chunk_size /\ total > 0)
  THEN PopFront(Tail(cur), total - Len(Head(cur)), len, chunk_size, chunk_overlap)
  ELSE <<cur, total>>

\* _merge_splits(splits, "") from the state (docs, current_doc, total)
RECURSIVE MergeFrom(_, _, _, _, _, _)
MergeFrom(splits, docs, cur, total, chunk_size, chunk_overlap) ==
  IF splits = <<>>
  THEN IF JoinDocs(cur) = <<>> THEN docs ELSE Append(docs, JoinDocs(cur))
  ELSE LET d == Head(splits)
           over == total + Len(d) > chunk_size /\ Len(cur) > 0
           docs2 == IF over /\ JoinDocs(cur) # <<>>
                    THEN Append(docs, JoinDocs(cur)) ELSE docs
           popped == IF over
                     THEN PopFront(cur, total, Len(d), chunk_size, chunk_overlap)
                     ELSE <<cur, total>>
       IN  MergeFrom(Tail(splits), docs2, Append(popped[1], d),
                     popped[2] + Len(d), chunk_size, chunk_overlap)

MergeSplits(splits, chunk_size, chunk_overlap) ==
  MergeFrom(splits, <<>>, <<>>, 0, chunk_size, chunk_overlap)

\* the separator _split_text picks: the index of the first of seps that is ""
\* or occurs in the text
RECURSIVE PickSeparator(_, _, _)
PickSeparator(text, seps, k) ==
  IF k >= Len(seps) \/ seps[k] = <<>> \/ Contains(text, seps[k]) THEN k
  ELSE PickSeparator(text, seps, k + 1)

\* _split_text(text, separators)
RECURSIVE SplitText(_, _, _, _)
RECURSIVE SplitLoop(_, _, _, _, _, _)
SplitLoop(splits, good, final, rest, chunk_size, chunk_overlap) ==
  IF splits = <<>>
  THEN final \o MergeSplits(good, chunk_size, chunk_overlap)
  ELSE LET s == Head(splits)
       IN  IF Len(s) < chunk_size
           THEN SplitLoop(Tail(splits), Append(good, s), final, rest,
                          chunk_size, chunk_overlap)
           ELSE SplitLoop(Tail(splits), <<>>,
                          final \o MergeSplits(good, chunk_size, chunk_overlap)
                                \o (IF rest = <<>> THEN <<s>>
                                    ELSE SplitText(s, rest, chunk_size, chunk_overlap)),
                          rest, chunk_size, chunk_overlap)

SplitText(text, seps, chunk_size, chunk_overlap) ==
  LET k == PickSeparator(text, seps, 1)
      rest == IF seps[k] = <<>> THEN <<>> ELSE SubSeq(seps, k + 1, Len(seps))
  IN  SplitLoop(SplitWithRegex(text, seps[k]), <<>>, <<>>, rest,
                chunk_size, chunk_overlap)

\* create_documents splitting the texts of all records as one text, the
\* chunks given the metadata of the first record
create_documents_joined(file_content, chunk_size, chunk_overlap) ==
  IF file_content = <<>> THEN <<>>
  ELSE LET text == Flatten([i \in 1..Len(file_content) |->
                              file_content[i].page_content])
           parts == SplitText(text, Separators, chunk_size, chunk_overlap)
       IN  [i \in 1..Len(parts) |->
              [page_content |-> parts[i], metadata |-> file_content[1].metadata]]

\* create_documents(texts, metadatas): every text split on its own, each
\* chunk given a copy of its record's metadata
RECURSIVE create_documents(_, _, _)
create_documents(file_content, chunk_size, chunk_overlap) ==
  IF file_content = <<>> THEN <<>>
  ELSE LET rec == Head(file_content)
           parts == SplitText(rec.page_content, Separators, chunk_size, chunk_overlap)
       IN  [i \in 1..Len(parts) |->
              [page_content |-> parts[i], metadata |-> rec.metadata]]
           \o create_documents(Tail(file_content), chunk_size, chunk_overlap)

\* a returned value, or the exception raised instead of one
Ok(v) == [exc |-> "", val |-> v]
Raise(e) == [exc |-> e, val |-> <<>>]

\* process_file_content: ValueError when the splitter's constructor refuses
\* the sizes (chunk_overlap > chunk_size), else the chunks
process_file_content(file_content, chunk_size, chunk_overlap) ==
  IF chunk_overlap > chunk_size THEN Raise("ValueError")
  ELSE Ok(create_documents(file_content, chunk_size, chunk_overlap))

---------------------------------------------------------------------------
(* Schemas (pydantic models) *)

\* ObjectId values are 1, 2, ...; None is 0
None == 0
IsObjectId(v) == v \in 1..(MaxOid + 1)

\* Project(project_id=value) with min_length=1 alone, validate_project_id
\* left out
ProjectValidNonEmpty(project_id) == Len(project_id) >= 1

\* Project(project_id=value): min_length=1 and validate_project_id
ProjectValid(project_id) == Len(project_id) >= 1 /\ IsAlnum(project_id)

\* DataChunk(**kw): every field is required except id; chunk_text has
\* min_length=1, chunk_order gt=0, the two references are ObjectIds
DataChunkValid(kw) ==
  /\ {"chunk_text", "chunk_metadata", "chunk_order",
      "chunk_project_id", "chunk_asset_id"} \subseteq DOMAIN kw
  /\ Len(kw.chunk_text) >= 1
  /\ kw.chunk_order > 0
  /\ IsObjectId(kw.chunk_project_id)
  /\ IsObjectId(kw.chunk_asset_id)

---------------------------------------------------------------------------
(* Loaders *)

\* the path os.path.join(project_path, file_id), as <<project_id, file_id>>
FilePath(project_id, file_id) == <<project_id, file_id>>

\* page texts of a PDF body: the pages are the stretches between form feeds
\* (a stand-in for PDF page structure)
RECURSIVE Pages(_, _)
Pages(text, cur) ==
  IF text = <<>> THEN <<cur>>
  ELSE IF Head(text) = "\f" THEN <<cur>> \o Pages(Tail(text), <<>>)
  ELSE Pages(Tail(text), Append(cur, Head(text)))

\* loader.load() of get_file_content on a directory dir (name -> body):
\* the exception raised, or the records read
get_file_content(dir, project_id, file_id) ==
  LET loader == get_file_loader(file_id)
      path == FilePath(project_id, file_id)
  IN  IF loader = "None" THEN Raise("AttributeError")
      ELSE IF file_id \notin DOMAIN dir
           THEN Raise(IF loader = "TextLoader" THEN "RuntimeError" ELSE "ValueError")
      ELSE IF loader = "TextLoader"
           THEN Ok(<< [page_content |-> Expand(dir[file_id]),
                       metadata |-> [source |-> path]] >>)
      ELSE LET pages == Pages(Expand(dir[file_id]), <<>>)
           IN  Ok([k \in 1..Len(pages) |->
                     [page_content |-> pages[k],
                      metadata |-> [source |-> path, page |-> k - 1]]])

---------------------------------------------------------------------------
(* State *)

\* the request slots: each runs at most one request
Slots == {"A", "B", "C"}

VARIABLES
  task,        \* slot -> the request in it: its inputs, locals, position, response
  projects,    \* the projects collection: documents [_id, project_id], in insertion order
  chunks,      \* the chunks collection: DataChunk documents, in insertion order
  disk,        \* assets/files: project_id of each existing directory -> (file name -> bytes)
  block_size,  \* Settings.FILE_DEFAULT_CHUNK_SIZE
  nextOid,     \* the next ObjectId the database hands out
  solo,        \* history: slot -> no other slot has taken a step since this one started
  pre,         \* history: slot -> the chunks collection when its request started
  log          \* history: slot -> the effects its request has had, in order

vars == <<task, projects, chunks, disk, block_size, nextOid, solo, pre, log>>

NoProject == [id |-> None, project_id |-> <<>>]
NoRequest == [file_id |-> <<>>, chunk_size |-> 0, overlap_size |-> 0, do_reset |-> 0]
NoResponse == [status |-> 0, signal |-> "", file_id |-> <<>>, count |-> 0]

IdleTask ==
  [kind |-> "idle", pc |-> "idle", project_id |-> <<>>, project |-> NoProject,
   content_type |-> "", filename |-> <<>>, body |-> <<>>, stream |-> <<>>,
   file_id |-> <<>>, offset |-> 0, req |-> NoRequest, file_chunks |-> <<>>,
   records |-> <<>>, store_pid |-> None, batch_size |-> 0, i |-> 0,
   file_content |-> <<>>, resp |-> NoResponse]

EmptyDir == <<>>

Init ==
  /\ task = [t \in Slots |-> IdleTask]
  /\ projects = <<>>
  /\ chunks = <<>>
  /\ disk = <<>>
  /\ block_size \in BlockSizes
  /\ nextOid = 1
  /\ solo = [t \in Slots |-> FALSE]
  /\ pre = [t \in Slots |-> <<>>]
  /\ log = [t \in Slots |-> <<>>]

\* the same with FILE_DEFAULT_CHUNK_SIZE=2 in .env
InitBlock == Init /\ block_size = 2

\* history kept along a step of slot t
Track(t, starting, effects) ==
  /\ solo' = [u \in Slots |-> IF u = t THEN (starting \/ solo[t]) ELSE FALSE]
  /\ pre' = IF starting THEN [pre EXCEPT ![t] = chunks] ELSE pre
  /\ log' = [log EXCEPT ![t] = @ \o effects]

\* the handler returns a JSONResponse
Respond(rec, status, signal, file_id, count) ==
  [rec EXCEPT !.pc = "done",
              !.resp = [status |-> status, signal |-> signal,
                        file_id |-> file_id, count |-> count]]

\* an exception leaves the handler: the framework answers 500
Fault(rec, exc) == Respond(rec, 500, exc, <<>>, 0)

\* the directory of a project with one more file, or one file rewritten
WithFile(d, project_id, name, bytes) ==
  [d EXCEPT ![project_id] =
     [n \in DOMAIN d[project_id] \cup {name} |->
        IF n = name THEN bytes ELSE d[project_id][n]]]

---------------------------------------------------------------------------
(* ProjectController *)

\* get_project_path without the os.path.exists test: the directory is made
\* anew each time
get_project_path_anew(d, project_id) ==
  [q \in DOMAIN d \cup {project_id} |->
     IF q = project_id THEN EmptyDir ELSE d[q]]

\* get_project_path: os.makedirs(project_dir) unless the directory exists
get_project_path(d, project_id) ==
  IF project_id \in DOMAIN d THEN d
  ELSE [q \in DOMAIN d \cup {project_id} |->
          IF q = project_id THEN EmptyDir ELSE d[q]]

---------------------------------------------------------------------------
(* ProjectModel *)

\* ProjectModel.create_instance: the collection carries the indexes of
\* Project.get_indexes, project_id unique, as ChunkModel.init_collection
\* does for the chunks
ProjectIndexUnique == TRUE

\* find_one answering None whatever the collection holds
FindProjectNone(project_id) == <<>>

\* collection.find_one({"project_id": project_id}): the documents that match
FindProject(project_id) ==
  SelectSeq(projects, LAMBDA doc : doc.project_id = project_id)

\* the step after get_project_or_create_one returned
AfterProject(kind) == IF kind = "upload" THEN "validate" ELSE "chunk"

\* get_project_or_create_one, up to the answer of find_one: the record found
\* becomes Project(**record); with none found Project(project_id=...) is built
ProjectFind(t) ==
  LET rec == task[t]
      found == FindProject(rec.project_id)
  IN  /\ rec.pc = "find"
      /\ task' = [task EXCEPT ![t] =
           IF found # <<>>
           THEN [rec EXCEPT !.pc = AfterProject(rec.kind),
                            !.project = [id |-> found[1]._id,
                                         project_id |-> found[1].project_id]]
           ELSE IF ProjectValid(rec.project_id)
           THEN [rec EXCEPT !.pc = "create"]
           ELSE Fault(rec, "ValidationError")]
      /\ UNCHANGED <<projects, chunks, disk, block_size, nextOid>>
      /\ Track(t, FALSE, <<>>)

\* create_project: insert_one, then project._id = inserted_id, which sets a
\* private attribute: the field id of the returned Project stays None
ProjectCreate(t) ==
  LET rec == task[t]
  IN  /\ rec.pc = "create"
      /\ nextOid <= MaxOid
      /\ IF ProjectIndexUnique /\ FindProject(rec.project_id) # <<>>
         THEN /\ task' = [task EXCEPT ![t] = Fault(rec, "DuplicateKeyError")]
              /\ UNCHANGED <<projects, nextOid>>
              /\ Track(t, FALSE, <<>>)
         ELSE /\ projects' = Append(projects,
                               [_id |-> nextOid, project_id |-> rec.project_id])
              /\ nextOid' = nextOid + 1
              /\ task' = [task EXCEPT ![t] =
                   [rec EXCEPT !.pc = AfterProject(rec.kind),
                               !.project = [id |-> None,
                                            project_id |-> rec.project_id]]]
              /\ Track(t, FALSE, <<"project">>)
      /\ UNCHANGED <<chunks, disk, block_size>>

---------------------------------------------------------------------------
(* Inputs *)

p1 == <<"p", "1">>

a_txt == <<"a", ".", "t", "x", "t">>
a_pdf == <<"a", ".", "p", "d", "f">>
a_d == <<"a", ".", "d">>

\* a body of n equal bytes
Run(c, n) == IF n = 0 THEN <<>> ELSE <<[b |-> c, n |-> n]>>

\* bodies at the size ceiling and right above it
CeilingBodies == {Run("a", Ceiling), Run("a", Ceiling + 1)}

---------------------------------------------------------------------------
(* routes/data.py: upload_data *)

\* the request arrives; Step 1 up to the await of get_project_or_create_one
UploadStartWith(t, pids, ctypes, names, bodies) ==
  /\ task[t].pc = "idle"
  /\ \E project_id \in pids, content_type \in ctypes,
        filename \in names, body \in bodies :
       /\ CeilDiv(Size(body), block_size) <= MaxWrites
       /\ task' = [task EXCEPT ![t] =
            [IdleTask EXCEPT !.kind = "upload", !.pc = "find",
                             !.project_id = project_id,
                             !.content_type = content_type,
                             !.filename = filename,
                             !.body = body, !.stream = body]]
  /\ UNCHANGED <<projects, chunks, disk, block_size, nextOid>>
  /\ Track(t, TRUE, <<>>)

\* generate_unique_filepath with "if" for "while": a colliding first name is
\* drawn again once and the second one returned as it is
UniqueNamesOneRetry(dir, orig_file_name) ==
  LET drawn == {StoredName(random_key, orig_file_name) : random_key \in Tokens}
  IN  (drawn \ DOMAIN dir) \cup (IF drawn \cap DOMAIN dir = {} THEN {} ELSE drawn)

\* generate_unique_filepath without the loop on os.path.exists
UniqueNamesUnchecked(dir, orig_file_name) ==
  {StoredName(random_key, orig_file_name) : random_key \in Tokens}

\* the names generate_unique_filepath may return in directory dir: a token's
\* name is drawn again while a file of that name exists
UniqueNames(dir, orig_file_name) ==
  {StoredName(random_key, orig_file_name) : random_key \in Tokens} \ DOMAIN dir

\* Steps 2 to 4 with the project directory made before the validation
UploadValidateDirFirst(t) ==
  LET rec == task[t]
      v == validate_uploaded_file(rec.content_type, Size(rec.body))
      made == get_project_path(disk, rec.project_id)
      free == UniqueNames(made[rec.project_id], rec.filename)
  IN  /\ rec.pc = "validate"
      /\ disk' = made
      /\ Track(t, FALSE,
               IF rec.project_id \in DOMAIN disk THEN <<>> ELSE <<"mkdir">>)
      /\ IF ~v[1]
         THEN task' = [task EXCEPT ![t] = Respond(rec, 400, v[2], <<>>, 0)]
         ELSE IF free = {}
         THEN task' = [task EXCEPT ![t] = [rec EXCEPT !.pc = "spin"]]
         ELSE \E name \in free :
                task' = [task EXCEPT ![t] =
                  [rec EXCEPT !.pc = "open", !.file_id = name]]
      /\ UNCHANGED <<projects, chunks, block_size, nextOid>>

\* Steps 2 to 4, up to the await of aiofiles.open: validation, and for a
\* valid file the project directory and the unique name
UploadValidate(t) ==
  LET rec == task[t]
      v == validate_uploaded_file(rec.content_type, Size(rec.body))
      made == get_project_path(disk, rec.project_id)
      free == UniqueNames(made[rec.project_id], rec.filename)
  IN  /\ rec.pc = "validate"
      /\ IF ~v[1]
         THEN /\ task' = [task EXCEPT ![t] = Respond(rec, 400, v[2], <<>>, 0)]
              /\ disk' = disk
              /\ Track(t, FALSE, <<>>)
         ELSE /\ disk' = made
              /\ Track(t, FALSE,
                       IF rec.project_id \in DOMAIN disk THEN <<>> ELSE <<"mkdir">>)
              /\ IF free = {}
                 THEN task' = [task EXCEPT ![t] = [rec EXCEPT !.pc = "spin"]]
                 ELSE \E name \in free :
                        task' = [task EXCEPT ![t] =
                          [rec EXCEPT !.pc = "open", !.file_id = name]]
      /\ UNCHANGED <<projects, chunks, block_size, nextOid>>

\* a byte no upload wrote: the gap a write past the end of a file leaves
ZeroByte == "NUL"

\* f.write(block) that always writes at the start of the file
WriteAtStart(bytes, offset, block) == Cat(block, Drop(bytes, Size(block)))

\* f.write(block) at position offset of a file holding bytes
WriteAt(bytes, offset, block) ==
  LET head == Take(bytes, offset)
      gap == Run(ZeroByte, offset - Size(head))
  IN  Cat(Cat(Cat(head, gap), block), Drop(bytes, offset + Size(block)))

\* Step 6: the except block names ResponseSignals.FILE_UPLOAD_FAILED, which
\* the enum does not have (its member is FILE_UPLOADED_FAIL): the handler ends
\* in this exception instead of the 400 it was building
UploadFailure == "AttributeError"

\* Step 5, aiofiles.open(file_path, "wb"): the file is created or truncated,
\* or the open fails and Step 6 runs
UploadOpen(t) ==
  LET rec == task[t]
  IN  /\ rec.pc = "open"
      /\ \/ /\ disk' = WithFile(disk, rec.project_id, rec.file_id, <<>>)
            /\ task' = [task EXCEPT ![t] = [rec EXCEPT !.pc = "write", !.offset = 0]]
            /\ Track(t, FALSE, <<"open">>)
         \/ /\ disk' = disk
            /\ task' = [task EXCEPT ![t] = Fault(rec, UploadFailure)]
            /\ Track(t, FALSE, <<>>)
      /\ UNCHANGED <<projects, chunks, block_size, nextOid>>

\* one round of the loop of Step 5: read a block (the end of the body ends
\* the loop: Step 7), write it at the handle's position, or fail in the write
UploadWriteBlock(t) ==
  LET rec == task[t]
      block == Take(rec.stream, block_size)
      bytes == disk[rec.project_id][rec.file_id]
  IN  /\ rec.pc = "write"
      /\ IF block = <<>>
         THEN /\ task' = [task EXCEPT ![t] =
                   Respond(rec, 200, FILE_UPLOAD_SUCCESS, rec.file_id, 0)]
              /\ disk' = disk
              /\ Track(t, FALSE, <<>>)
         ELSE \/ /\ disk' = WithFile(disk, rec.project_id, rec.file_id,
                                     WriteAt(bytes, rec.offset, block))
                 /\ task' = [task EXCEPT ![t] =
                      [rec EXCEPT !.stream = Drop(rec.stream, block_size),
                                  !.offset = rec.offset + Size(block)]]
                 /\ Track(t, FALSE, <<"write">>)
              \/ /\ disk' = disk
                 /\ task' = [task EXCEPT ![t] = Fault(rec, UploadFailure)]
                 /\ Track(t, FALSE, <<>>)
      /\ UNCHANGED <<projects, chunks, block_size, nextOid>>

---------------------------------------------------------------------------
(* routes/data.py: process_endpoint *)

\* the request arrives; Steps 1 and 2 up to the await of
\* get_project_or_create_one
ProcessStartWith(t, pids, names, sizes, overlaps, resets) ==
  /\ task[t].pc = "idle"
  /\ \E project_id \in pids, file_id \in names,
        chunk_size \in sizes, overlap_size \in overlaps, do_reset \in resets :
       /\ project_id \in DOMAIN disk /\ file_id \in DOMAIN disk[project_id]
            => Size(disk[project_id][file_id]) <= MaxBody
       /\ task' = [task EXCEPT ![t] =
            [IdleTask EXCEPT !.kind = "process", !.pc = "find",
                             !.project_id = project_id,
                             !.req = [file_id |-> file_id,
                                      chunk_size |-> chunk_size,
                                      overlap_size |-> overlap_size,
                                      do_reset |-> do_reset]]]
  /\ UNCHANGED <<projects, chunks, disk, block_size, nextOid>>
  /\ Track(t, TRUE, <<>>)

\* Step 5 with chunk_order=i, counting from 0
ChunkArgumentsFromZero(file_chunks, project) ==
  [i \in 1..Len(file_chunks) |->
     [chunk_text |-> file_chunks[i].page_content,
      chunk_metadata |-> file_chunks[i].metadata,
      chunk_order |-> i - 1,
      chunk_project_id |-> project.id]]

\* Step 5: the arguments of the DataChunk built for each chunk, chunk_order
\* counting from 1 (no chunk_asset_id is passed)
ChunkArguments(file_chunks, project) ==
  [i \in 1..Len(file_chunks) |->
     [chunk_text |-> file_chunks[i].page_content,
      chunk_metadata |-> file_chunks[i].metadata,
      chunk_order |-> (i - 1) + 1,
      chunk_project_id |-> project.id]]

\* Step 4 without the check of the empty list
NoChunksIgnored(file_chunks) == FALSE

\* Step 4: whether the request stops with FILE_PROCESSING_FAIL
NoChunks(file_chunks) == Len(file_chunks) = 0

\* Steps 3 to 5 on the project's directory dir: "fault" with the exception
\* that leaves the handler, "fail" for the 400 of Step 4, or "persist" with
\* the records to insert
ProcessOutcome(dir, project, project_id, req) ==
  LET content == get_file_content(dir, project_id, req.file_id)
      split == process_file_content(content.val, req.chunk_size, req.overlap_size)
      args == ChunkArguments(split.val, project)
  IN  IF content.exc # "" THEN [kind |-> "fault", exc |-> content.exc,
                                 file_chunks |-> <<>>, records |-> <<>>]
      ELSE IF split.exc # "" THEN [kind |-> "fault", exc |-> split.exc,
                                    file_chunks |-> <<>>, records |-> <<>>]
      ELSE IF NoChunks(split.val) THEN [kind |-> "fail", exc |-> "",
                                         file_chunks |-> split.val, records |-> <<>>]
      ELSE IF \E i \in 1..Len(args) : ~DataChunkValid(args[i])
           THEN [kind |-> "fault", exc |-> "ValidationError",
                 file_chunks |-> split.val, records |-> <<>>]
      ELSE [kind |-> "persist", exc |-> "",
            file_chunks |-> split.val, records |-> args]

\* Steps 3 to 5, up to the first await on the chunk collection.  The
\* ProcessController creates the project directory when it is missing.
ProcessChunk(t) ==
  LET rec == task[t]
      made == get_project_path(disk, rec.project_id)
      out == ProcessOutcome(made[rec.project_id], rec.project, rec.project_id, rec.req)
      got == [rec EXCEPT !.file_chunks = out.file_chunks]
  IN  /\ rec.pc = "chunk"
      /\ disk' = made
      /\ task' = [task EXCEPT ![t] =
           IF out.kind = "fault" THEN Fault(got, out.exc)
           ELSE IF out.kind = "fail"
                THEN Respond(got, 400, FILE_PROCESSING_FAIL, <<>>, 0)
           ELSE [got EXCEPT !.records = out.records,
                            !.store_pid = rec.project.id,
                            !.batch_size = DefaultBatchSize,
                            !.i = 0,
                            !.pc = IF rec.req.do_reset = 1 THEN "delete" ELSE "insert"]]
      /\ UNCHANGED <<projects, chunks, block_size, nextOid>>
      /\ Track(t, FALSE, IF rec.project_id \in DOMAIN disk THEN <<>> ELSE <<"mkdir">>)

---------------------------------------------------------------------------
(* ChunkModel *)

\* a direct call of insert_many_chunks(chunks, batch_size)
InsertManyStartWith(t, oids, lengths, texts, batch_sizes) ==
  /\ task[t].pc = "idle"
  /\ \E project \in oids, n \in lengths, text \in texts,
        batch_size \in batch_sizes :
       task' = [task EXCEPT ![t] =
         [IdleTask EXCEPT !.kind = "insert_many", !.pc = "insert",
                          !.records =
                            [k \in 1..n |->
                               [chunk_text |-> text,
                                chunk_metadata |-> [source |-> <<>>],
                                chunk_order |-> k,
                                chunk_project_id |-> project,
                                chunk_asset_id |-> 1]],
                          !.store_pid = project,
                          !.batch_size = batch_size, !.i = 0]]
  /\ UNCHANGED <<projects, chunks, disk, block_size, nextOid>>
  /\ Track(t, TRUE, <<>>)

\* a direct call of delete_chunks_by_project_id(project_id)
DeleteStartWith(t, oids) ==
  /\ task[t].pc = "idle"
  /\ \E project \in oids :
       task' = [task EXCEPT ![t] =
         [IdleTask EXCEPT !.kind = "delete", !.pc = "delete",
                          !.store_pid = project]]
  /\ UNCHANGED <<projects, chunks, disk, block_size, nextOid>>
  /\ Track(t, TRUE, <<>>)

\* delete_many({}): no filter, nothing stays in the collection
delete_chunks_of_all(docs, project_id) == <<>>

\* delete_many({"chunk_project_id": project_id}): what stays in the collection
delete_chunks_by_project_id(docs, project_id) ==
  SelectSeq(docs, LAMBDA doc : doc.chunk_project_id # project_id)

\* a batch chunks[i:i+batch_size-1], one record short
BatchShort(records, i, batch_size) == Slice(records, i, i + batch_size - 1)

\* the batch chunks[0:batch_size] whatever i: the first batch again
BatchFromStart(records, i, batch_size) == Slice(records, 0, batch_size)

\* the batch chunks[i:i+batch_size] of insert_many_chunks
Batch(records, i, batch_size) == Slice(records, i, i + batch_size)

\* delete_chunks_by_project_id, called directly or as Step 6 of a process
\* request
DeleteChunks(t) ==
  LET rec == task[t]
      left == delete_chunks_by_project_id(chunks, rec.store_pid)
  IN  /\ rec.pc = "delete"
      /\ chunks' = left
      /\ task' = [task EXCEPT ![t] =
           IF rec.kind = "process" THEN [rec EXCEPT !.pc = "insert"]
           ELSE Respond(rec, 200, "deleted", <<>>, Len(chunks) - Len(left))]
      /\ UNCHANGED <<projects, disk, block_size, nextOid>>
      /\ Track(t, FALSE, <<"delete">>)

\* one round of the loop of insert_many_chunks (a bulk_write of one batch),
\* or its return of len(chunks), which Step 8 of a process request reports
InsertBatch(t) ==
  LET rec == task[t]
  IN  /\ rec.pc = "insert"
      /\ IF rec.i >= Len(rec.records)
         THEN /\ chunks' = chunks
              /\ task' = [task EXCEPT ![t] =
                   Respond(rec, 200,
                           IF rec.kind = "process" THEN FILE_PROCESSING_SUCCESS
                           ELSE "inserted",
                           <<>>, Len(rec.records))]
              /\ Track(t, FALSE, <<>>)
         ELSE /\ chunks' = chunks \o Batch(rec.records, rec.i, rec.batch_size)
              /\ task' = [task EXCEPT ![t] = [rec EXCEPT !.i = rec.i + rec.batch_size]]
              /\ Track(t, FALSE, <<"insert">>)
      /\ UNCHANGED <<projects, disk, block_size, nextOid>>

---------------------------------------------------------------------------
(* The system *)

\* the slots are used in the order A, B, C
Earlier(t) == IF t = "A" THEN {} ELSE IF t = "B" THEN {"A"} ELSE {"A", "B"}
Ordered(t) == \A u \in Earlier(t) : task[u].pc # "idle"

\* the requests being handled
InFlight == {t \in Slots : task[t].pc \notin {"idle", "done", "spin"}}

\* the stored names an upload of a.txt or a.pdf can get, a name no file has,
\* and a name of an extension no loader reads
KnownNames ==
  {StoredName(k, n) : k \in Tokens, n \in {a_txt, a_pdf}} \cup {a_txt, a_d}

UploadStart(t) ==
  UploadStartWith(t, {p1}, {"text/plain"}, {a_txt, a_pdf},
                  {Encode(<<" ">>), Encode(<<"a", "\f", "a">>)})

ProcessStart(t) ==
  ProcessStartWith(t, {p1}, KnownNames, {2}, {0}, {0, 1})

InsertManyStart(t) ==
  InsertManyStartWith(t, {1}, {1, 2}, {<<"b">>}, {1, DefaultBatchSize})

DeleteStart(t) == DeleteStartWith(t, {1})

\* a request arrives in slot t
Start(t) ==
  /\ Ordered(t)
  /\ \/ UploadStart(t)
     \/ ProcessStart(t)
     \/ InsertManyStart(t)
     \/ DeleteStart(t)

\* the request in slot t runs up to its next await
Step(t) ==
  \/ ProjectFind(t)
  \/ ProjectCreate(t)
  \/ UploadValidate(t)
  \/ UploadOpen(t)
  \/ UploadWriteBlock(t)
  \/ ProcessChunk(t)
  \/ DeleteChunks(t)
  \/ InsertBatch(t)

\* requests of every kind, in any interleaving
Next == \E t \in Slots : Start(t) \/ Step(t)

Spec == Init /\ [][Next]_vars

\* requests of every kind, one at a time: none arrives while another is
\* being handled
NextSeq == \E t \in Slots : (InFlight = {} /\ Start(t)) \/ Step(t)

SpecSeq == InitBlock /\ [][NextSeq]_vars

\* requests of every kind, the process requests up to MaxInFlight at a time
\* and the others one at a time
NextPair ==
  \E t \in Slots :
    \/ /\ InFlight = {}
       /\ Ordered(t)
       /\ UploadStart(t) \/ InsertManyStart(t) \/ DeleteStart(t)
    \/ /\ Cardinality(InFlight) < MaxInFlight
       /\ \A u \in InFlight : task[u].kind = "process"
       /\ Ordered(t)
       /\ ProcessStart(t)
    \/ Step(t)

SpecPair == InitBlock /\ [][NextPair]_vars

\* two requests of every kind, in any interleaving
NextMixed == \E t \in Slots \ {"C"} : Start(t) \/ Step(t)

SpecMixed == InitBlock /\ [][NextMixed]_vars

\* project ids Project(project_id=...) refuses: the empty one, and ids with
\* a character that is not alphanumeric
BadIds == {<<>>, <<"_">>, <<"p", "-", "1">>, <<"p", " ">>}

UploadStartBadId(t) ==
  UploadStartWith(t, BadIds, {"text/plain"}, {a_txt}, {Encode(<<"a">>)})

ProcessStartBadId(t) ==
  ProcessStartWith(t, BadIds, KnownNames, {2}, {0}, {0, 1})

\* two requests of every kind, of good and of refused project ids, in any
\* interleaving
NextIds ==
  \E t \in Slots \ {"C"} :
    \/ Start(t)
    \/ Ordered(t) /\ UploadStartBadId(t)
    \/ Ordered(t) /\ ProcessStartBadId(t)
    \/ Step(t)

SpecIds == InitBlock /\ [][NextIds]_vars

\* a content type outside FILE_ALLOWED_TYPES
image_png == "image/png"

\* uploads of bodies up to the size ceiling and above it, of either kind of
\* content type
UploadStartAny(t) ==
  UploadStartWith(t, {p1}, {"text/plain", image_png}, {a_txt},
                  {Encode(<<"a", "b">>)} \cup CeilingBodies)

\* uploads only, two at a time
NextUpload ==
  \E t \in Slots \ {"C"} :
    \/ Ordered(t) /\ UploadStartAny(t)
    \/ ProjectFind(t)
    \/ ProjectCreate(t)
    \/ UploadValidate(t)
    \/ UploadOpen(t)
    \/ UploadWriteBlock(t)

SpecUpload == Init /\ [][NextUpload]_vars

InsertManyStartAny(t) ==
  InsertManyStartWith(t, {1, 2}, {1, MaxChunks}, {<<"b">>}, {2, DefaultBatchSize})

DeleteStartAny(t) == DeleteStartWith(t, {1, 2})

\* callers of the ChunkModel only, at most MaxInFlight of them at once
NextStore ==
  \E t \in Slots :
    \/ Cardinality(InFlight) < MaxInFlight /\ Ordered(t) /\ InsertManyStartAny(t)
    \/ Cardinality(InFlight) < MaxInFlight /\ Ordered(t) /\ DeleteStartAny(t)
    \/ DeleteChunks(t)
    \/ InsertBatch(t)

SpecStore == InitBlock /\ [][NextStore]_vars

\* callers of the ChunkModel with chunks of two projects
InsertManyStartTwo(t) ==
  InsertManyStartWith(t, {1, 2}, {1, 2}, {<<"b">>}, {DefaultBatchSize})

\* requests of every kind, one at a time, the chunks of two projects
NextScope ==
  \E t \in Slots :
    \/ /\ InFlight = {}
       /\ Ordered(t)
       /\ \/ UploadStart(t)
          \/ ProcessStart(t)
          \/ InsertManyStartTwo(t)
          \/ DeleteStartAny(t)
    \/ Step(t)

SpecScope == InitBlock /\ [][NextScope]_vars

\* the test of the while loop of generate_unique_filepath left out: the name
\* drawn is returned whether a file has it or not
LoopExitsAlways(dir, name) == TRUE

\* "while os.path.exists(new_file_path)": whether the loop is left with name
LoopExits(dir, name) == name \notin DOMAIN dir

\* an upload is inside the loop of generate_unique_filepath, which has no
\* await: no other request runs until it returns
Looping == {t \in Slots : task[t].pc = "name"}

\* Steps 2 to 4 up to the first test of the loop of generate_unique_filepath:
\* validation, and for a valid file the project directory and the name of
\* the first token drawn
UploadName(t) ==
  LET rec == task[t]
      v == validate_uploaded_file(rec.content_type, Size(rec.body))
      made == get_project_path(disk, rec.project_id)
  IN  /\ rec.pc = "validate"
      /\ IF ~v[1]
         THEN /\ task' = [task EXCEPT ![t] = Respond(rec, 400, v[2], <<>>, 0)]
              /\ disk' = disk
              /\ Track(t, FALSE, <<>>)
         ELSE /\ disk' = made
              /\ Track(t, FALSE,
                       IF rec.project_id \in DOMAIN disk THEN <<>> ELSE <<"mkdir">>)
              /\ \E random_key \in Tokens :
                   task' = [task EXCEPT ![t] =
                     [rec EXCEPT !.pc = "name",
                                 !.file_id = StoredName(random_key, rec.filename)]]
      /\ UNCHANGED <<projects, chunks, block_size, nextOid>>

\* one round of the loop: a file has the name, and random_key is drawn
UniqueRetry(t, random_key) ==
  LET rec == task[t]
  IN  /\ rec.pc = "name"
      /\ ~LoopExits(disk[rec.project_id], rec.file_id)
      /\ task' = [task EXCEPT ![t] =
           [rec EXCEPT !.file_id = StoredName(random_key, rec.filename)]]
      /\ UNCHANGED <<projects, chunks, disk, block_size, nextOid>>
      /\ Track(t, FALSE, IF "retry" \in Range(log[t]) THEN <<>> ELSE <<"retry">>)

\* the loop is left: generate_unique_filepath returns the name
UniqueReturn(t) ==
  LET rec == task[t]
  IN  /\ rec.pc = "name"
      /\ LoopExits(disk[rec.project_id], rec.file_id)
      /\ task' = [task EXCEPT ![t] = [rec EXCEPT !.pc = "open"]]
      /\ UNCHANGED <<projects, chunks, disk, block_size, nextOid>>
      /\ Track(t, FALSE, <<>>)

UploadStartOne(t) ==
  UploadStartWith(t, {p1}, {"text/plain"}, {a_txt}, {Encode(<<"a">>)})

\* uploads of one file name, one at a time, the loop of
\* generate_unique_filepath taken round by round
NextRetry ==
  \E t \in Slots :
    \/ /\ Looping = {}
       /\ \/ InFlight = {} /\ Ordered(t) /\ UploadStartOne(t)
          \/ ProjectFind(t)
          \/ ProjectCreate(t)
          \/ UploadName(t)
          \/ UploadOpen(t)
          \/ UploadWriteBlock(t)
    \/ \E random_key \in Tokens : UniqueRetry(t, random_key)
    \/ UniqueReturn(t)

\* random.choices draws every token again and again, and the event loop runs
\* a request that can go on
FairRetry ==
  \A t \in Slots :
    /\ \A random_key \in Tokens : WF_vars(UniqueRetry(t, random_key))
    /\ WF_vars(UniqueReturn(t))

SpecRetry == InitBlock /\ [][NextRetry]_vars /\ FairRetry

\* characters of file names: letters, a digit, "_", ".", white space, "-"
NameAlphabet == {"a", "T", "1", "_", ".", " ", "-", "\n"}

\* every name of at most MaxName of these characters, the empty one included
Names == UNION {[1..n -> NameAlphabet] : n \in 0..MaxName}

UploadStartNamed(t) ==
  UploadStartWith(t, {p1}, {"text/plain"}, Names, {Encode(<<"a">>)})

\* uploads of files of every name, one at a time
NextNamed ==
  \E t \in Slots :
    \/ InFlight = {} /\ Ordered(t) /\ t = "A" /\ UploadStartNamed(t)
    \/ ProjectFind(t)
    \/ ProjectCreate(t)
    \/ UploadValidate(t)
    \/ UploadOpen(t)
    \/ UploadWriteBlock(t)

SpecNamed == InitBlock /\ [][NextNamed]_vars

\* process requests whose overlap_size is their chunk_size or above it
ProcessStartOverlap(t) ==
  ProcessStartWith(t, {p1}, KnownNames, {2}, {2, 3}, {1})

\* requests of every kind one at a time, the process requests with such
\* overlaps
NextOverlap ==
  \E t \in Slots :
    \/ /\ InFlight = {}
       /\ Ordered(t)
       /\ \/ UploadStart(t)
          \/ ProcessStartOverlap(t)
          \/ InsertManyStart(t)
          \/ DeleteStart(t)
    \/ Step(t)

SpecOverlap == InitBlock /\ [][NextOverlap]_vars

---------------------------------------------------------------------------
(* ProcessController.process_file_content, called on its own *)

\* characters of record texts: two letters and the white space the splitter
\* looks for
TextAlphabet == {"a", "b", " ", "\n"}

\* every text of at most n of these characters, the empty one included
Texts(n) == UNION {[1..k -> TextAlphabet] : k \in 0..n}

abcdefghij == <<"a", "b", "c", "d", "e", "f", "g", "h", "i", "j">>

\* a loaded record: its text and the metadata the loader gave it
Record(text, page) == [page_content |-> text, metadata |-> [page |-> page]]

\* lists of one record of any text, and of two records of short texts
FileContents ==
  {<<Record(x, 0)>> : x \in Texts(MaxText) \cup {abcdefghij}}
    \cup {<<Record(x, 0), Record(y, 1)>> : x, y \in Texts(2)}

\* a caller hands process_file_content the records and the two sizes
SplitStart(t) ==
  /\ task[t].pc = "idle"
  /\ \E file_content \in FileContents, chunk_size \in 1..MaxChunkSize,
        overlap_size \in 0..MaxOverlap :
       task' = [task EXCEPT ![t] =
         [IdleTask EXCEPT !.kind = "split", !.pc = "split",
                          !.file_content = file_content,
                          !.req = [chunk_size |-> chunk_size,
                                   overlap_size |-> overlap_size,
                                   do_reset |-> 0, file_id |-> <<>>]]]
  /\ UNCHANGED <<projects, chunks, disk, block_size, nextOid>>
  /\ Track(t, TRUE, <<>>)

\* process_file_content runs: the chunks are returned, or the splitter's
\* constructor raises
SplitContent(t) ==
  /\ task[t].pc = "split"
  /\ LET rec == task[t]
         out == process_file_content(rec.file_content, rec.req.chunk_size,
                                     rec.req.overlap_size)
     IN  task' = [task EXCEPT ![t] =
           IF out.exc # "" THEN Fault(rec, out.exc)
           ELSE Respond([rec EXCEPT !.file_chunks = out.val],
                        200, "", <<>>, Len(out.val))]
  /\ UNCHANGED <<projects, chunks, disk, block_size, nextOid>>
  /\ Track(t, FALSE, <<>>)

\* one call of process_file_content
NextSplit ==
  \E t \in Slots :
    \/ t = "A" /\ SplitStart(t)
    \/ SplitContent(t)

SpecSplit == InitBlock /\ [][NextSplit]_vars

---------------------------------------------------------------------------
(* Properties of the process endpoint *)

\* C1 (as the specification states it): a process request with do_reset=1
\* that got N >= 1 chunks and ran with no other request in between ends with
\* success, having deleted the project's chunks before it inserted, and the
\* project then holds exactly its N new chunks.
C1_ResetReplaces ==
  \A t \in Slots :
    (/\ task[t].kind = "process" /\ task[t].pc = "done" /\ solo[t]
     /\ task[t].req.do_reset = 1
     /\ Len(task[t].file_chunks) >= 1)
    => /\ task[t].resp.signal = FILE_PROCESSING_SUCCESS
       /\ SelectSeq(log[t], LAMBDA e : e \in {"delete", "insert"})
            = <<"delete", "insert">>
       /\ Len(task[t].records) = Len(task[t].file_chunks)
       /\ SelectSeq(chunks, LAMBDA doc : doc.chunk_project_id = task[t].store_pid)
            = task[t].records

\* C2 (as the specification states it): a process request with do_reset=0
\* that got N >= 1 chunks and ran with no other request in between ends with
\* success, and the collection is then what it was before followed by the N
\* new chunks.
C2_AppendKeeps ==
  \A t \in Slots :
    (/\ task[t].kind = "process" /\ task[t].pc = "done" /\ solo[t]
     /\ task[t].req.do_reset = 0
     /\ Len(task[t].file_chunks) >= 1)
    => /\ task[t].resp.signal = FILE_PROCESSING_SUCCESS
       /\ Len(task[t].records) = Len(task[t].file_chunks)
       /\ chunks = pre[t] \o task[t].records
       /\ Len(chunks) = Len(pre[t]) + Len(task[t].file_chunks)

C4_NoChunksFails ==
  \A t \in Slots :
    (/\ task[t].kind = "process" /\ task[t].pc = "done" /\ solo[t]
     /\ task[t].project_id \in DOMAIN disk)
    => LET content == get_file_content(disk[task[t].project_id],
                                       task[t].project_id, task[t].req.file_id)
           split == process_file_content(content.val, task[t].req.chunk_size,
                                         task[t].req.overlap_size)
       IN  /\ (content.exc = "" /\ split.exc = "" /\ Len(split.val) = 0)
                => /\ task[t].resp.status = 400
                   /\ task[t].resp.signal = "file processing failed"
           /\ task[t].resp.signal = "file processing successful"
                => task[t].resp.count >= 1

\* C4, reached: the file of a request held white space only
C4_Witness ==
  \E t \in Slots :
    /\ task[t].kind = "process" /\ task[t].pc = "done"
    /\ task[t].project_id \in DOMAIN disk
    /\ task[t].req.file_id \in DOMAIN disk[task[t].project_id]
    /\ Expand(disk[task[t].project_id][task[t].req.file_id]) = <<" ">>
    /\ task[t].resp.status = 400
    /\ task[t].resp.signal = FILE_PROCESSING_FAIL

\* C5 (what the interleaving needs): a process request with do_reset=1 that
\* got N >= 1 chunks performs its delete, and one with N >= 1 chunks its
\* insert, so that the delete of one can fall after the insert of another.
C5_ResetReachesStore ==
  \A t \in Slots :
    (/\ task[t].kind = "process" /\ task[t].pc = "done"
     /\ Len(task[t].file_chunks) >= 1)
    => /\ "insert" \in Range(log[t])
       /\ task[t].req.do_reset = 1 => "delete" \in Range(log[t])

\* C7 (as the specification states it): every chunk a process request builds
\* carries the _id under which the project is stored, also when the request
\* itself created the project, and a reference to the asset it came from.
C7_ChunkReferences ==
  \A t \in Slots :
    (/\ task[t].kind = "process" /\ task[t].pc = "done"
     /\ Len(task[t].file_chunks) >= 1)
    => LET args == ChunkArguments(task[t].file_chunks, task[t].project)
           stored == FindProject(task[t].project_id)
       IN  \A i \in 1..Len(args) :
             /\ stored # <<>>
             /\ args[i].chunk_project_id = stored[1]._id
             /\ "chunk_asset_id" \in DOMAIN args[i]
             /\ DataChunkValid(args[i])

---------------------------------------------------------------------------
(* Properties of the ChunkModel *)

\* C6: insert_many_chunks of N chunks into a project's empty partition, with
\* no other caller in between, leaves in the partition exactly those N
\* chunks, in order, with chunk_order 1..N and the project's id, and
\* returns N.
C6_InsertManyStoresAll ==
  \A t \in Slots :
    (/\ task[t].kind = "insert_many" /\ task[t].pc = "done" /\ solo[t]
     /\ SelectSeq(pre[t], LAMBDA doc : doc.chunk_project_id = task[t].store_pid) = <<>>)
    => LET stored == SelectSeq(chunks,
                       LAMBDA doc : doc.chunk_project_id = task[t].store_pid)
       IN  /\ stored = task[t].records
           /\ task[t].resp.count = Len(stored)
           /\ \A k \in 1..Len(stored) :
                /\ stored[k].chunk_order = k
                /\ stored[k].chunk_project_id = task[t].store_pid

\* C6, reached: MaxChunks chunks went in as batches of two, next to the chunks of
\* another project
C6_Witness ==
  \E t \in Slots :
    /\ task[t].kind = "insert_many" /\ task[t].pc = "done" /\ solo[t]
    /\ Len(task[t].records) = MaxChunks /\ task[t].batch_size = 2
    /\ pre[t] # <<>>
    /\ SelectSeq(pre[t], LAMBDA doc : doc.chunk_project_id = task[t].store_pid) = <<>>
    /\ Len(chunks) = Len(pre[t]) + MaxChunks

---------------------------------------------------------------------------
(* Properties of the upload endpoint *)

\* C8: an upload that got as far as validation is refused with "file type
\* not supported" when its content type is not allowed, whatever its size;
\* else refused with "file size exceeded" exactly when its size is above
\* FILE_MAX_SIZE * 1048576; else it is not refused by validation.  A body of
\* exactly the ceiling passes, one byte more does not.
C8_ValidateUploadedFile ==
  LET ceiling == FILE_MAX_SIZE * 1048576
      allowed == {"text/plain", "application/pdf"}
  IN  /\ validate_uploaded_file("text/plain", ceiling)
           = <<TRUE, "file validation successful">>
      /\ validate_uploaded_file("text/plain", ceiling + 1)
           = <<FALSE, "file size exceeded">>
      /\ validate_uploaded_file("image/png", ceiling + 1)
           = <<FALSE, "file type not supported">>
      /\ \A t \in Slots :
           (/\ task[t].kind = "upload"
            /\ \/ task[t].pc \in {"open", "write", "spin"}
               \/ /\ task[t].pc = "done"
                  /\ task[t].resp.signal \notin {"ValidationError", "DuplicateKeyError"})
           => LET refused(signal) == /\ task[t].pc = "done"
                                     /\ task[t].resp.status = 400
                                     /\ task[t].resp.signal = signal
              IN  IF task[t].content_type \notin allowed
                  THEN refused("file type not supported")
                  ELSE IF Size(task[t].body) > ceiling
                  THEN refused("file size exceeded")
                  ELSE /\ ~refused("file type not supported")
                       /\ ~refused("file size exceeded")

\* C8, reached: a body of exactly the ceiling was stored, one of a byte more
\* refused for its size, and one of a type not allowed refused for its type
\* though it was too large as well
C8_Witness ==
  \E t \in Slots, u \in Slots :
    /\ task[t].kind = "upload" /\ task[t].pc = "done"
    /\ Size(task[t].body) = Ceiling
    /\ task[t].resp.signal = FILE_UPLOAD_SUCCESS
    /\ task[u].kind = "upload" /\ task[u].pc = "done"
    /\ Size(task[u].body) = Ceiling + 1
    /\ \/ /\ task[u].content_type = "text/plain"
          /\ task[u].resp.signal = FILE_SIZE_EXCEEDED
       \/ /\ task[u].content_type = image_png
          /\ task[u].resp.signal = FILE_TYPE_NOT_SUPPORTED

\* C9: an upload refused by validation answers 400 with the signal of the
\* validation, and it has made no directory, generated no name, opened and
\* written no file.
C9_RefusedStoresNothing ==
  \A t \in Slots :
    (/\ task[t].kind = "upload" /\ task[t].pc = "done"
     /\ task[t].resp.signal \in {FILE_TYPE_NOT_SUPPORTED, FILE_SIZE_EXCEEDED})
    => /\ task[t].resp.status = 400
       /\ ~validate_uploaded_file(task[t].content_type, Size(task[t].body))[1]
       /\ task[t].resp.signal
            = validate_uploaded_file(task[t].content_type, Size(task[t].body))[2]
       /\ task[t].file_id = <<>>
       /\ task[t].resp.file_id = <<>>
       /\ Range(log[t]) \cap {"mkdir", "open", "write"} = {}

\* C9, reached: an upload was refused for its size while its project had no
\* directory yet
C9_Witness ==
  \E t \in Slots :
    /\ task[t].kind = "upload" /\ task[t].pc = "done"
    /\ task[t].resp.status = 400
    /\ task[t].resp.signal = FILE_SIZE_EXCEEDED
    /\ task[t].project_id \notin DOMAIN disk

\* C10 (as the specification states it): a successful upload answers with
\* the stored name as file_id, and the file of that name holds exactly the
\* uploaded bytes in order, written in blocks of at most block_size bytes.
C10_StoredBytes ==
  \A t \in Slots :
    (/\ task[t].kind = "upload" /\ task[t].pc = "done"
     /\ task[t].resp.signal = FILE_UPLOAD_SUCCESS)
    => /\ task[t].resp.status = 200
       /\ task[t].resp.file_id = task[t].file_id
       /\ task[t].project_id \in DOMAIN disk
       /\ task[t].file_id \in DOMAIN disk[task[t].project_id]
       /\ disk[task[t].project_id][task[t].file_id] = task[t].body
       /\ task[t].offset = Size(task[t].body)
       /\ Len(SelectSeq(log[t], LAMBDA e : e = "write"))
            = CeilDiv(Size(task[t].body), block_size)

\* C10 (amended): the same for a successful upload whose storage path was
\* given to no other upload.
C10_StoredBytesOwnPath ==
  \A t \in Slots :
    (/\ task[t].kind = "upload" /\ task[t].pc = "done"
     /\ task[t].resp.signal = FILE_UPLOAD_SUCCESS
     /\ \A u \in Slots \ {t} :
          ~(/\ task[u].kind = "upload"
            /\ task[u].project_id = task[t].project_id
            /\ task[u].file_id = task[t].file_id))
    => /\ task[t].resp.status = 200
       /\ task[t].resp.file_id = task[t].file_id
       /\ task[t].project_id \in DOMAIN disk
       /\ task[t].file_id \in DOMAIN disk[task[t].project_id]
       /\ disk[task[t].project_id][task[t].file_id] = task[t].body
       /\ task[t].offset = Size(task[t].body)
       /\ Len(SelectSeq(log[t], LAMBDA e : e = "write"))
            = CeilDiv(Size(task[t].body), block_size)

\* C10, reached: a body of two different bytes was stored in two blocks of
\* one byte, under a name no other upload was given
C10_Witness ==
  \E t \in Slots :
    /\ task[t].kind = "upload" /\ task[t].pc = "done"
    /\ task[t].resp.signal = FILE_UPLOAD_SUCCESS
    /\ block_size = 1
    /\ Expand(task[t].body) = <<"a", "b">>
    /\ log[t][Len(log[t]) - 1] = "write" /\ log[t][Len(log[t])] = "write"
    /\ \A u \in Slots \ {t} : task[u].file_id # task[t].file_id

\* C11 (as the specification states it): an upload whose open or write
\* failed answers 400 with "file upload failed".
C11_StorageFailureAnswers400 ==
  \A t \in Slots :
    (/\ task[t].kind = "upload" /\ task[t].pc = "done"
     /\ task[t].file_id # <<>>
     /\ task[t].resp.signal # FILE_UPLOAD_SUCCESS)
    => /\ task[t].resp.status = 400
       /\ task[t].resp.signal = "file upload failed"

\* C12: the step in which generate_unique_filepath returns gives the upload
\* a name that no file of the project directory has at that moment, and the
\* name is a token, "_" and the sanitized original name.
C12_UniqueNameIsFree ==
  [][\A t \in Slots :
       (task[t].pc = "validate" /\ task'[t].pc = "open")
       => /\ task'[t].project_id \in DOMAIN disk'
          /\ task'[t].file_id \notin DOMAIN disk'[task[t].project_id]
          /\ \E random_key \in Tokens :
               task'[t].file_id
                 = random_key \o <<"_">> \o get_clean_file_name(task[t].filename)]_vars

\* C12, reached: an upload was given a name while a file of the same original
\* name under another token was in the directory
C12_Witness ==
  \E t \in Slots :
    /\ task[t].kind = "upload" /\ task[t].pc = "open"
    /\ \E random_key \in Tokens :
         /\ StoredName(random_key, task[t].filename) # task[t].file_id
         /\ StoredName(random_key, task[t].filename)
              \in DOMAIN disk[task[t].project_id]

\* C13: the name check and the creation of the file are two steps.  An
\* upload is given the storage path another upload already holds only when
\* that other one has been named and has not opened its file (not yet, or
\* its open failed): both saw the path free.
C13_SamePathOnlyBeforeOpen ==
  [][\A t \in Slots, u \in Slots :
       (/\ t # u
        /\ task[t].pc = "validate" /\ task'[t].pc = "open"
        /\ task[u].kind = "upload"
        /\ task[u].project_id = task[t].project_id
        /\ task[u].file_id = task'[t].file_id)
       => /\ task[u].pc \in {"open", "done"}
          /\ "open" \notin Range(log[u])
          /\ task'[t].file_id \notin DOMAIN disk'[task[t].project_id]]_vars

\* C13, reached: two uploads of different bodies were given the same path,
\* both answered success, and the file holds the bytes of one of them only
C13_Witness ==
  \E t \in Slots, u \in Slots :
    /\ t # u
    /\ task[t].kind = "upload" /\ task[t].pc = "done"
    /\ task[u].kind = "upload" /\ task[u].pc = "done"
    /\ task[t].resp.signal = FILE_UPLOAD_SUCCESS
    /\ task[u].resp.signal = FILE_UPLOAD_SUCCESS
    /\ task[t].project_id = task[u].project_id
    /\ task[t].filename = task[u].filename
    /\ task[t].file_id = task[u].file_id
    /\ task[t].body # task[u].body
    /\ disk[task[t].project_id][task[t].file_id] = task[u].body

\* C14: the sanitized name under which an upload is stored is made of
\* letters, digits, "_" and "." only, holds no white space, and is the
\* original name with every other character dropped (the kept ones in their
\* order); the empty name gives the empty name.
C14_CleanFileName ==
  /\ get_clean_file_name(<<>>) = <<>>
  /\ \A t \in Slots :
       (task[t].kind = "upload" /\ task[t].file_id # <<>>)
       => LET clean == SubSeq(task[t].file_id, 12 + 2, Len(task[t].file_id))
              allowed == {"a", "T", "1", "_", "."}
          IN  /\ \A i \in 1..Len(clean) :
                   clean[i] \in allowed /\ clean[i] \notin {" ", "\n", "\t", "\f"}
              /\ clean = SelectSeq(task[t].filename, LAMBDA c : c \in allowed)
              /\ task[t].filename = <<>> => clean = <<>>

\* C14, reached: a name with white space inside and a "-" was stored shorter
C14_Witness ==
  \E t \in Slots :
    /\ task[t].kind = "upload" /\ task[t].pc = "done"
    /\ task[t].resp.signal = FILE_UPLOAD_SUCCESS
    /\ task[t].filename = <<"a", " ", "-">>
    /\ Len(task[t].file_id) = TokenLength + 2

---------------------------------------------------------------------------
(* Properties of the controllers *)

\* C15: on every disk the system reaches, get_project_path leaves the
\* project's directory existing, a second call changes nothing more, a call
\* for a directory that exists changes nothing at all, and no call touches
\* another project's directory.  (The path returned is the directory of the
\* project id, the key of disk.)
C15_ProjectPathIdempotent ==
  \A project_id \in {<<"p", "1">>, <<"p", "2">>} :
    LET once == get_project_path(disk, project_id)
        twice == get_project_path(once, project_id)
    IN  /\ project_id \in DOMAIN once
        /\ twice = once
        /\ project_id \in DOMAIN disk => once = disk
        /\ \A q \in DOMAIN disk : q # project_id => once[q] = disk[q]
        /\ DOMAIN once = DOMAIN disk \cup {project_id}

\* C15, reached: a second request resolved the directory of a project that
\* an earlier request had made and put a file in
C15_Witness ==
  \E t \in Slots, u \in Slots :
    /\ t # u
    /\ task[t].pc = "done" /\ task[u].pc = "done"
    /\ task[t].project_id = task[u].project_id
    /\ "mkdir" \in Range(log[t]) /\ "write" \in Range(log[t])
    /\ task[u].kind = "process" /\ "mkdir" \notin Range(log[u])
    /\ DOMAIN disk[task[t].project_id] # {}

\* C16 (as the specification states it): a process request for a .txt or
\* .pdf file that is not in the project directory answers with the failure
\* "file not found", and deletes and inserts no chunk.
C16_MissingFileReturned ==
  \A t \in Slots :
    (/\ task[t].kind = "process" /\ task[t].pc = "done" /\ solo[t]
     /\ task[t].project_id \in DOMAIN disk
     /\ task[t].req.file_id \notin DOMAIN disk[task[t].project_id]
     /\ get_file_loader(task[t].req.file_id) # "None")
    => /\ task[t].resp.status = 400
       /\ task[t].resp.signal = "file not found"
       /\ Range(log[t]) \cap {"delete", "insert"} = {}

\* C17 (as the specification states it): the loader of a file is the text
\* loader for the lower-cased extension ".txt", the PDF loader for ".pdf",
\* none otherwise; and a process request for a file with no loader answers
\* with a failure (400), not with an uncaught exception.
C17_NoLoaderReturned ==
  \A t \in Slots :
    (task[t].kind = "process" /\ task[t].pc = "done" /\ solo[t])
    => LET file_ext == get_file_extension(task[t].req.file_id)
           loader == get_file_loader(task[t].req.file_id)
       IN  /\ loader = "TextLoader" <=> file_ext = <<".", "t", "x", "t">>
           /\ loader = "PyMuPDFLoader" <=> file_ext = <<".", "p", "d", "f">>
           /\ loader = "None"
                => /\ task[t].resp.status = 400
                   /\ task[t].resp.signal # "AttributeError"
                   /\ Range(log[t]) \cap {"delete", "insert"} = {}

\* C18 (as the specification states it): a process request with
\* overlap_size >= chunk_size for a file that loads is rejected before any
\* text is split: it answers with a failure (400) that is not the "no chunks"
\* failure of Step 4, holds no chunk, and deletes and inserts nothing.
C18_OverlapRejected ==
  \A t \in Slots :
    (/\ task[t].kind = "process" /\ task[t].pc = "done" /\ solo[t]
     /\ task[t].req.overlap_size >= task[t].req.chunk_size
     /\ task[t].project_id \in DOMAIN disk
     /\ task[t].req.file_id \in DOMAIN disk[task[t].project_id]
     /\ get_file_loader(task[t].req.file_id) # "None")
    => /\ task[t].file_chunks = <<>>
       /\ task[t].resp.status = 400
       /\ task[t].resp.signal # FILE_PROCESSING_FAIL
       /\ Range(log[t]) \cap {"delete", "insert"} = {}

---------------------------------------------------------------------------
(* Properties of the splitter *)

\* the finished calls of process_file_content with chunk_size > overlap >= 0
SplitsDone ==
  {t \in Slots : /\ task[t].kind = "split"
                 /\ task[t].pc = "done"
                 /\ task[t].req.chunk_size > task[t].req.overlap_size
                 /\ task[t].req.overlap_size >= 0}

\* C19: whatever the record texts, when chunk_size > overlap >= 0 the call
\* returns, and every chunk it returns is non-empty and at most chunk_size
\* characters long.
C19_ChunkLengths ==
  \A t \in SplitsDone :
    /\ task[t].resp.status = 200
    /\ \A k \in 1..Len(task[t].file_chunks) :
         /\ Len(task[t].file_chunks[k].page_content) >= 1
         /\ Len(task[t].file_chunks[k].page_content) <= task[t].req.chunk_size

\* a text of MaxText characters with white space in it was cut into three
\* chunks or more, one of them as long as chunk_size allows
C19_Witness ==
  \E t \in SplitsDone :
    /\ Len(task[t].file_content) = 1
    /\ Len(task[t].file_content[1].page_content) = MaxText
    /\ \E i \in 1..MaxText :
         task[t].file_content[1].page_content[i] \in Whitespace
    /\ Len(task[t].file_chunks) >= 3
    /\ \E k \in 1..Len(task[t].file_chunks) :
         Len(task[t].file_chunks[k].page_content) = task[t].req.chunk_size

\* the last n characters of a text
Tail_n(text, n) == SubSeq(text, Len(text) - n + 1, Len(text))

\* chunk k of t begins with the last `overlap` characters of chunk k - 1
BeginsWithTail(t, k) ==
  LET overlap == task[t].req.overlap_size
      prev == task[t].file_chunks[k - 1].page_content
      this == task[t].file_chunks[k].page_content
  IN  /\ Len(prev) >= overlap
      /\ Len(this) >= overlap
      /\ SubSeq(this, 1, overlap) = Tail_n(prev, overlap)

\* the chunks of "abcdefghij" cut with chunk_size 4 and overlap 2
Windows_abcdefghij ==
  << <<"a", "b", "c", "d">>, <<"c", "d", "e", "f">>,
     <<"e", "f", "g", "h">>, <<"g", "h", "i", "j">> >>

\* the example of C20: "abcdefghij" with chunk_size 4 and overlap 2 gives
\* exactly the four windows
ExampleWindows(t) ==
  (/\ task[t].file_content[1].page_content = abcdefghij
   /\ task[t].req.chunk_size = 4
   /\ task[t].req.overlap_size = 2)
    => [k \in 1..Len(task[t].file_chunks) |-> task[t].file_chunks[k].page_content]
         = Windows_abcdefghij

\* C20 (as the specification states it): within one record, whatever its
\* text, every chunk after the first begins with the last `overlap`
\* characters of the chunk before it, and "abcdefghij" with chunk_size 4 and
\* overlap 2 gives abcd, cdef, efgh, ghij.
C20_EveryChunkOverlaps ==
  \A t \in SplitsDone :
    Len(task[t].file_content) = 1 =>
      /\ \A k \in 2..Len(task[t].file_chunks) : BeginsWithTail(t, k)
      /\ ExampleWindows(t)

\* C20 (amended): within one record whose text has no white space, so that
\* it is cut between characters only, every chunk after the first begins
\* with the last `overlap` characters of the chunk before it, and
\* "abcdefghij" with chunk_size 4 and overlap 2 gives abcd, cdef, efgh, ghij.
C20_CharacterCutsOverlap ==
  \A t \in SplitsDone :
    (/\ Len(task[t].file_content) = 1
     /\ \A i \in 1..Len(task[t].file_content[1].page_content) :
          task[t].file_content[1].page_content[i] \notin Whitespace) =>
      /\ \A k \in 2..Len(task[t].file_chunks) : BeginsWithTail(t, k)
      /\ ExampleWindows(t)

\* "abcdefghij" was cut with chunk_size 4 and overlap 2 into its four windows
C20_Witness ==
  \E t \in SplitsDone :
    /\ Len(task[t].file_content) = 1
    /\ task[t].file_content[1].page_content = abcdefghij
    /\ task[t].req.chunk_size = 4
    /\ task[t].req.overlap_size = 2
    /\ Len(task[t].file_chunks) = 4
    /\ \A k \in 2..4 : BeginsWithTail(t, k)

\* whether the text can be put together again from the chunks: the first
\* chunk whole, and of every later chunk what is left once a part it shares
\* with the chunk before it (n[k] characters, at most overlap) is removed
CanRebuild(text, parts, overlap) ==
  \E n \in [2..Len(parts) -> 0..overlap] :
    /\ \A k \in 2..Len(parts) :
         /\ n[k] <= Len(parts[k])
         /\ n[k] <= Len(parts[k - 1])
         /\ SubSeq(parts[k], 1, n[k]) = Tail_n(parts[k - 1], n[k])
    /\ Flatten([k \in 1..Len(parts) |->
                  IF k = 1 THEN parts[k]
                  ELSE SubSeq(parts[k], n[k] + 1, Len(parts[k]))]) = text

\* C21 (as the specification states it): for every record, the chunks in
\* output order, each without the part it shares with the chunk before it,
\* put the record's text together again exactly, white space included.
C21_ChunksRebuildText ==
  \A t \in SplitsDone :
    Len(task[t].file_content) = 1 =>
      CanRebuild(task[t].file_content[1].page_content,
                 [k \in 1..Len(task[t].file_chunks) |->
                    task[t].file_chunks[k].page_content],
                 task[t].req.overlap_size)

\* the texts of the chunks of t that carry the metadata of record r, in
\* output order
ChunksOfRecord(t, r) ==
  LET mine == SelectSeq(task[t].file_chunks,
                        LAMBDA c : c.metadata = task[t].file_content[r].metadata)
  IN  [k \in 1..Len(mine) |-> mine[k].page_content]

\* whether the parts are pieces of the text found one after the other from
\* left to right, none starting before the start of the one before it (a
\* chunk stripped of its leading white space starts where the next one does)
RECURSIVE InOrder(_, _, _)
InOrder(text, parts, from) ==
  \/ parts = <<>>
  \/ \E p \in from..Len(text) :
       /\ MatchAt(text, Head(parts), p)
       /\ InOrder(text, Tail(parts), p)

\* C22: the records are split one by one and in order: every chunk belongs
\* to one record, the chunks of record i all come before those of record
\* i + 1, and the chunks of a record are pieces of that record's text alone,
\* in left-to-right order.
C22_RecordsInOrder ==
  \A t \in SplitsDone :
    LET file_content == task[t].file_content
        file_chunks == task[t].file_chunks
    IN  /\ \A k \in 1..Len(file_chunks) :
             \E r \in 1..Len(file_content) :
               file_chunks[k].metadata = file_content[r].metadata
        /\ \A j, k \in 1..Len(file_chunks) :
             j < k => file_chunks[j].metadata.page <= file_chunks[k].metadata.page
        /\ \A r \in 1..Len(file_content) :
             InOrder(file_content[r].page_content, ChunksOfRecord(t, r), 1)

\* two records were split, the first into two chunks, the second into one
C22_Witness ==
  \E t \in SplitsDone :
    /\ Len(task[t].file_content) = 2
    /\ Len(ChunksOfRecord(t, 1)) = 2
    /\ Len(ChunksOfRecord(t, 2)) >= 1
    /\ task[t].file_content[1].page_content # task[t].file_content[2].page_content

---------------------------------------------------------------------------
(* Properties of what a process request stores *)

\* C23 (as the specification states it): the metadata a chunk got from its
\* record is what is stored as chunk_metadata of the persisted chunk: a
\* process request that got N >= 1 chunks leaves, for each of them, a stored
\* chunk of its text and its metadata.
C23_MetadataStored ==
  \A t \in Slots :
    (/\ task[t].kind = "process" /\ task[t].pc = "done"
     /\ Len(task[t].file_chunks) >= 1)
    => \A i \in 1..Len(task[t].file_chunks) :
         \E j \in 1..Len(chunks) :
           /\ chunks[j].chunk_text = task[t].file_chunks[i].page_content
           /\ chunks[j].chunk_metadata = task[t].file_chunks[i].metadata

---------------------------------------------------------------------------
(* Properties of the project store *)

C25_BadIdCreatesNothing ==
  /\ \A i \in 1..Len(projects) :
       /\ Len(projects[i].project_id) >= 1
       /\ IsAlnum(projects[i].project_id)
  /\ \A t \in Slots :
       (/\ task[t].kind \in {"upload", "process"}
        /\ ~(Len(task[t].project_id) >= 1 /\ IsAlnum(task[t].project_id))) =>
         /\ task[t].pc \in {"find", "done"}
         /\ log[t] = <<>>
         /\ task[t].project_id \notin DOMAIN disk
         /\ task[t].pc = "done" =>
              /\ task[t].resp.status = 500
              /\ task[t].resp.signal = "ValidationError"

\* an upload and a process request that named refused ids have both ended
C25_Witness ==
  \E t, u \in Slots :
    /\ task[t].kind = "upload" /\ task[t].pc = "done"
    /\ task[t].project_id = <<"p", "-", "1">>
    /\ task[u].kind = "process" /\ task[u].pc = "done"
    /\ task[u].project_id = <<"_">>
    /\ task[u].req.do_reset = 1

---------------------------------------------------------------------------
(* Properties of the batches *)

\* the bulk writes a call has issued so far
Writes(t) == Cardinality({k \in 1..Len(log[t]) : log[t][k] = "insert"})

\* C26: insert_many_chunks of N chunks with batch_size >= 1 issues its bulk
\* writes in list order: after w writes exactly the first min(w * batch_size,
\* N) chunks of the list are stored, in order (so every write but the last
\* is of batch_size chunks, the last of what is left, and every chunk is in
\* one batch); the call ends after ceil(N / batch_size) writes and returns N.
C26_BatchesInListOrder ==
  \A t \in Slots :
    task[t].kind = "insert_many" =>
      LET N == Len(task[t].records)
          w == Writes(t)
      IN  /\ task[t].batch_size >= 1
          /\ w <= CeilDiv(N, task[t].batch_size)
          /\ task[t].pc = "insert" => task[t].i = w * task[t].batch_size
          /\ solo[t] =>
               chunks = pre[t] \o SubSeq(task[t].records, 1,
                                         Min(w * task[t].batch_size, N))
          /\ task[t].pc = "done" =>
               /\ w = CeilDiv(N, task[t].batch_size)
               /\ task[t].resp.count = N

\* MaxChunks chunks went in with batch_size 2, in more than one bulk write
C26_Witness ==
  \E t \in Slots :
    /\ task[t].kind = "insert_many" /\ task[t].pc = "done" /\ solo[t]
    /\ Len(task[t].records) = MaxChunks
    /\ task[t].batch_size = 2
    /\ Writes(t) = CeilDiv(MaxChunks, 2)
    /\ Writes(t) >= 2
    /\ task[t].resp.count = MaxChunks

---------------------------------------------------------------------------
(* Properties of the Persisting phase *)

\* C27 (what the partial failure needs): a process request that got N >= 1
\* chunks and ended in failure failed at one of its batch inserts: it had
\* begun to persist, and with do_reset=1 it had already deleted the
\* project's earlier chunks, which are not restored.
C27_FailsWhilePersisting ==
  \A t \in Slots :
    (/\ task[t].kind = "process" /\ task[t].pc = "done" /\ solo[t]
     /\ Len(task[t].file_chunks) >= 1
     /\ task[t].resp.status # 200)
    => /\ task[t].records # <<>>
       /\ task[t].req.do_reset = 1 =>
            /\ "delete" \in Range(log[t])
            /\ chunks = delete_chunks_by_project_id(pre[t], task[t].store_pid)
                          \o SubSeq(task[t].records, 1, Len(chunks)
                               - Len(delete_chunks_by_project_id(pre[t], task[t].store_pid)))

\* C28: a process request deletes and inserts chunks only once its file was
\* loaded and split into at least one chunk; a request that ended with no
\* chunk (the file not loaded, the sizes refused, or nothing to split) has
\* left the collection as it was, also with do_reset=1.
C28_StoreOnlyWhenChunks ==
  \A t \in Slots :
    task[t].kind = "process" =>
      /\ ("delete" \in Range(log[t]) \/ "insert" \in Range(log[t])
          \/ task[t].pc \in {"delete", "insert"})
           => Len(task[t].file_chunks) >= 1
      /\ (task[t].pc = "done" /\ solo[t] /\ Len(task[t].file_chunks) = 0)
           => /\ chunks = pre[t]
              /\ task[t].resp.status # 200

\* a process request with do_reset=1 for a project that had chunks stored
\* ended with "file processing failed", its file giving no chunk
C28_Witness ==
  \E t \in Slots :
    /\ task[t].kind = "process" /\ task[t].pc = "done" /\ solo[t]
    /\ task[t].req.do_reset = 1
    /\ task[t].resp.signal = FILE_PROCESSING_FAIL
    /\ task[t].project.id # None
    /\ \E j \in 1..Len(pre[t]) : pre[t][j].chunk_project_id = task[t].project.id
    /\ chunks = pre[t]

---------------------------------------------------------------------------
(* Properties of the reset *)

\* the chunks of a collection that belong to other projects than project
OfOthers(docs, project) ==
  SelectSeq(docs, LAMBDA doc : doc.chunk_project_id # project)

---------------------------------------------------------------------------
(* Properties of the retry loop *)

\* the names of the tokens that no file of the directory of t has
FreeNames(t) ==
  {StoredName(random_key, task[t].filename) : random_key \in Tokens}
    \ DOMAIN disk[task[t].project_id]

\* C30: the loop of generate_unique_filepath has no cap on its rounds.  With
\* every token drawn again and again, an upload in the loop leaves it, with
\* a name no file has, whenever some token gives such a name; and it never
\* leaves the loop when every token's name is taken.
C30_RetryLoop ==
  /\ \A t \in Slots :
       (task[t].pc = "name" /\ FreeNames(t) # {})
         ~> (task[t].pc = "open" /\ task[t].file_id \in FreeNames(t))
  /\ \A t \in Slots :
       [](task[t].pc = "name" /\ FreeNames(t) = {} => [](task[t].pc = "name"))

\* an upload drew a taken name, drew again and left the loop with a free one
C30_Witness ==
  \E t \in Slots :
    /\ task[t].kind = "upload" /\ task[t].pc = "open"
    /\ "retry" \in Range(log[t])
    /\ task[t].file_id \in FreeNames(t)
    /\ FreeNames(t) # {StoredName(random_key, task[t].filename) : random_key \in Tokens}

\* an upload is in the loop with every token's name taken
C30_WitnessAllTaken ==
  \E t \in Slots :
    /\ task[t].pc = "name" /\ FreeNames(t) = {}
    /\ "retry" \in Range(log[t])

====
